---- MODULE Spec2Model ----
(***************************************************************************)
(* Model of rasterix.rasterize.exact: the raster source adapter            *)
(* (xy_to_raster_source), the single-block coverage computer (np_coverage),*)
(* the chunk dispatcher (dask_coverage, coverage_np_dask_wrapper) and the  *)
(* public entry point (coverage).                                          *)
(*                                                                         *)
(* Numbers.  Coordinates are integers.  Cell centers sit on even integers, *)
(* so every half cell width (x[1] - x[0]) / 2 of the code is an integer    *)
(* and \div 2 is exact.  Coverage values are exact fractions <<n, d>> in   *)
(* lowest terms.  Python indices are 0-based and are kept 0-based as       *)
(* values (cell ids, geometry indices); TLA+ sequences are 1-based, so the *)
(* Python x[k] is x[k + 1] here and x[-1] is x[Len(x)].                     *)
(***************************************************************************)
EXTENDS Integers, Sequences, FiniteSets, TLC

VARIABLES
    pc,               \* position in the operation under way
    x,                \* x axis: sequence of cell centers
    y,                \* y axis: sequence of cell centers
    geometries,       \* geometry table: [geoms, ncols, kind, parts]
    coverage_weight,  \* weighting mode, a sequence of characters
    order,            \* cell order the overlay engine emits within a row
    obj,              \* chunk metadata of the gridded object (entry point)
    chunks,           \* [x, y, g]: chunk sizes of dask_x, dask_y, geom_array
    raster,           \* NumPyRasterSource built by xy_to_raster_source
    out,              \* np_coverage result, or block -> result in the chunked path
    engineCalls,      \* number of exact_extract invocations so far
    labels            \* [name, attrs] of the returned DataArray

vars == <<pc, x, y, geometries, coverage_weight, order, obj, chunks, raster,
          out, engineCalls, labels>>

(***************************************************************************)
(* Program constants and model bounds                                      *)
(***************************************************************************)
MIN_CHUNK_SIZE == 2

\* longest axis of the raster-adapter and single-block specifications
MaxAxisLen == 4
\* the last gap of an axis is widened by up to MaxStretch cells
MaxStretch == 1
\* most geometries in a geometry table
MaxGeoms == 2

None == "None"

(***************************************************************************)
(* Arithmetic helpers                                                      *)
(***************************************************************************)
Abs(a) == IF a < 0 THEN -a ELSE a

Min2(a, b) == IF a < b THEN a ELSE b

Max2(a, b) == IF a > b THEN a ELSE b

SeqMin(s) == CHOOSE m \in {s[k] : k \in 1..Len(s)} : \A k \in 1..Len(s) : m <= s[k]

SeqMax(s) == CHOOSE m \in {s[k] : k \in 1..Len(s)} : \A k \in 1..Len(s) : m >= s[k]

RECURSIVE Gcd(_, _)
Gcd(a, b) == IF b = 0 THEN a ELSE Gcd(b, a % b)

\* the fraction n / d (n >= 0, d > 0) in lowest terms
Frac(n, d) == LET g == Gcd(n, d) IN <<n \div g, d \div g>>

RECURSIVE SumSeq(_)
SumSeq(s) == IF s = <<>> THEN 0 ELSE Head(s) + SumSeq(Tail(s))

Reverse(s) == [k \in 1..Len(s) |-> s[Len(s) + 1 - k]]

\* s[a:b] of Python (0-based, half open)
Slice(s, a, b) == SubSeq(s, a + 1, b)

(***************************************************************************)
(* Inputs: coordinate axes                                                 *)
(***************************************************************************)
\* ascending cell centers 0, 2, 4, ... with the last gap widened by 2 * s
AscAxis(n, s) == [k \in 1..n |-> IF k = n THEN 2 * (n - 1) + 2 * s ELSE 2 * (k - 1)]

\* strictly monotonic axes of length n, ascending and descending
Axes(n) == {AscAxis(n, s) : s \in 0..MaxStretch}
           \cup {Reverse(AscAxis(n, s)) : s \in 0..MaxStretch}

AllAxes == UNION {Axes(n) : n \in MIN_CHUNK_SIZE..MaxAxisLen}

IsAscending(a) == a[1] < a[Len(a)]

(***************************************************************************)
(* xy_to_raster_source                                                     *)
(***************************************************************************)
xy_to_raster_source(xs, ys) ==
    LET xsize == Len(xs)
        ysize == Len(ys)
        dx0 == (xs[2] - xs[1]) \div 2
        dx1 == (xs[xsize] - xs[xsize - 1]) \div 2
        dy0 == Abs(ys[2] - ys[1]) \div 2
        dy1 == Abs(ys[ysize] - ys[ysize - 1]) \div 2
        swap == ys[1] > ys[ysize]
        dy0s == IF swap THEN dy1 ELSE dy0
        dy1s == IF swap THEN dy0 ELSE dy1
    IN  [shape |-> <<ysize, xsize>>,
         xmin |-> SeqMin(xs) - dx0, xmax |-> SeqMax(xs) + dx1,
         ymin |-> SeqMin(ys) - dy0s, ymax |-> SeqMax(ys) + dy1s]

(***************************************************************************)
(* Inputs: geometries and weighting modes                                  *)
(***************************************************************************)
\* A geometry is an axis-parallel rectangle [x0, x1] x [y0, y1].
Rect(x0, x1, y0, y1) == [x0 |-> x0, x1 |-> x1, y0 |-> y0, y1 |-> y1]

\* one whole cell of the unit grid; a rectangle that cuts cells in half and
\* straddles the middle of a 4 x 4 grid; a rectangle far away from every grid
GeomCatalogue == << Rect(1, 3, 1, 3), Rect(2, 4, 2, 6), Rect(40, 42, 40, 42) >>

\* the n geometries of the catalogue from position k on, cyclically
GeomRun(k, n) == [j \in 1..n |-> GeomCatalogue[((k + j - 2) % Len(GeomCatalogue)) + 1]]

GeomSeqs == {GeomRun(k, n) : k \in 1..Len(GeomCatalogue), n \in 1..MaxGeoms}

\* CoverageWeights, as character sequences
W_fraction == <<"f", "r", "a", "c", "t", "i", "o", "n">>

W_none == <<"n", "o", "n", "e">>

W_area_cartesian == <<"a", "r", "e", "a", "_", "c", "a", "r", "t", "e", "s", "i", "a", "n">>

W_area_spherical_m2 ==
    <<"a", "r", "e", "a", "_", "s", "p", "h", "e", "r", "i", "c", "a", "l", "_", "m", "2">>

W_area_spherical_km2 ==
    <<"a", "r", "e", "a", "_", "s", "p", "h", "e", "r", "i", "c", "a", "l", "_", "k", "m", "2">>

CoverageWeights ==
    {W_area_spherical_m2, W_area_cartesian, W_area_spherical_km2, W_fraction, W_none}

\* The modes of the single-block specification.  The two spherical modes
\* weight by geodesic cell area, which integer arithmetic cannot express;
\* where they occur the engine model measures the covered area in the plane,
\* as for area_cartesian.
EngineModes == {W_fraction, W_none, W_area_cartesian}

\* str.lower, on the characters that occur
LowerChar(ch) ==
    CASE ch = "N" -> "n" [] ch = "O" -> "o" [] ch = "E" -> "e" [] OTHER -> ch

Lower(s) == [k \in 1..Len(s) |-> LowerChar(s[k])]

(***************************************************************************)
(* The overlay engine (exact_extract), an external collaborator            *)
(*                                                                         *)
(* The raster is a regular grid of shape (ny, nx) laid over the bounding   *)
(* box; row 0 is the top row (ymax) and column 0 the left column (xmin).   *)
(* For each geometry the engine returns the linear ids r * nx + c of the   *)
(* cells its footprint covers with positive area, and one value per cell.  *)
(* Its interface fixes one row per geometry but not the order of the ids   *)
(* inside a row: EngineOrders are the traversals the model lets it use.    *)
(* A bounding box of no width or height is refused.                        *)
(***************************************************************************)
EngineOrders == {"row_major", "col_major"}

EngineFails(rast) == rast.xmax <= rast.xmin \/ rast.ymax <= rast.ymin

\* covered length of column c, in units of 1 / nx
OverlapX(rast, c, g) ==
    LET nx == rast.shape[2]
        w == rast.xmax - rast.xmin
        lo == nx * rast.xmin + c * w
        hi == lo + w
    IN  Max2(0, Min2(nx * g.x1, hi) - Max2(nx * g.x0, lo))

\* covered length of row r, in units of 1 / ny
OverlapY(rast, r, g) ==
    LET ny == rast.shape[1]
        h == rast.ymax - rast.ymin
        hi == ny * rast.ymax - r * h
        lo == hi - h
    IN  Max2(0, Min2(ny * g.y1, hi) - Max2(ny * g.y0, lo))

CellOverlap(rast, id, g) ==
    OverlapX(rast, id % rast.shape[2], g) * OverlapY(rast, id \div rast.shape[2], g)

\* the value of the coverage(coverage_weight=...) operation for one cell
CoverageValue(rast, id, g, mode) ==
    LET ov == CellOverlap(rast, id, g)
        w == rast.xmax - rast.xmin
        h == rast.ymax - rast.ymin
    IN  IF mode = W_none THEN <<1, 1>>
        ELSE IF mode = W_fraction THEN Frac(ov, w * h)
        ELSE Frac(ov, rast.shape[1] * rast.shape[2])  \* area modes: covered area

\* all cell ids of the grid in the order the engine visits them
Traversal(rast, ord) ==
    LET ny == rast.shape[1]
        nx == rast.shape[2]
    IN  [k \in 1..(ny * nx) |->
            IF ord = "row_major" THEN k - 1
            ELSE ((k - 1) % ny) * nx + ((k - 1) \div ny)]

\* result.cell_id / result.coverage: one row per geometry
exact_extract(rast, geoms, mode, ord) ==
    [i \in 1..Len(geoms) |->
        LET Touched(id) == CellOverlap(rast, id, geoms[i]) > 0
            ids == SelectSeq(Traversal(rast, ord), Touched)
        IN  [cell_id |-> ids,
             coverage |-> [k \in 1..Len(ids) |-> CoverageValue(rast, ids[k], geoms[i], mode)]]]

(***************************************************************************)
(* get_dtype and the cast of an engine value to it                         *)
(***************************************************************************)
\* faulty variant: every mode gets the unsigned byte dtype
get_dtype_uint8(mode) == "uint8"

get_dtype(mode) == IF Lower(mode) = W_none THEN "uint8" ELSE "float64"

\* assignment into an array of dtype: uint8 truncates and wraps, float64
\* keeps the value (exact fractions stand for the floats)
Cast(dtype, v) == IF dtype = "uint8" THEN <<(v[1] \div v[2]) % 256, 1>> ELSE v

(***************************************************************************)
(* np_coverage                                                             *)
(***************************************************************************)
\* marks a slot of np.empty that no assignment has written (no index and
\* no value the code stores is negative)
Uninit == 0 - 1

UninitValue == <<Uninit, 1>>

\* np.empty((nnz,)): every slot uninitialised, none written yet
EmptyArrays(nnz) ==
    [off |-> 0,
     geom_idxs |-> [k \in 1..nnz |-> Uninit],
     xy_idxs |-> [k \in 1..nnz |-> Uninit],
     data |-> [k \in 1..nnz |-> UninitValue],
     writes |-> [k \in 1..nnz |-> 0]]

\* faulty variant: the write offset is not advanced after a geometry
FillStepStuck(st, i, row, dtype) ==
    LET size == Len(row.cell_id)
        In(k) == st.off < k /\ k <= st.off + size
    IN  IF size = 0 THEN st
        ELSE [off |-> st.off,
              geom_idxs |-> [k \in DOMAIN st.geom_idxs |-> IF In(k) THEN i ELSE st.geom_idxs[k]],
              xy_idxs |-> [k \in DOMAIN st.xy_idxs |->
                              IF In(k) THEN row.cell_id[k - st.off] ELSE st.xy_idxs[k]],
              data |-> [k \in DOMAIN st.data |->
                           IF In(k) THEN Cast(dtype, row.coverage[k - st.off]) ELSE st.data[k]],
              writes |-> [k \in DOMAIN st.writes |->
                             IF In(k) THEN st.writes[k] + 1 ELSE st.writes[k]]]

\* one iteration of the fill loop, for geometry i (0-based) with engine row
\* `row`: the slice [off : off + size] of each array is assigned
FillStep(st, i, row, dtype) ==
    LET size == Len(row.cell_id)
        In(k) == st.off < k /\ k <= st.off + size
    IN  IF size = 0 THEN st
        ELSE [off |-> st.off + size,
              geom_idxs |-> [k \in DOMAIN st.geom_idxs |-> IF In(k) THEN i ELSE st.geom_idxs[k]],
              xy_idxs |-> [k \in DOMAIN st.xy_idxs |->
                              IF In(k) THEN row.cell_id[k - st.off] ELSE st.xy_idxs[k]],
              data |-> [k \in DOMAIN st.data |->
                           IF In(k) THEN Cast(dtype, row.coverage[k - st.off]) ELSE st.data[k]],
              writes |-> [k \in DOMAIN st.writes |->
                             IF In(k) THEN st.writes[k] + 1 ELSE st.writes[k]]]

\* for i in range(len(geometries)), from iteration i on
RECURSIVE FillLoop(_, _, _, _)
FillLoop(st, i, result, dtype) ==
    IF i = Len(result) THEN st
    ELSE FillLoop(FillStep(st, i, result[i + 1], dtype), i + 1, result, dtype)

\* np.unravel_index(id, shape): row-major decoding
Unravel(id, shape) == IF id = Uninit THEN <<Uninit, Uninit>>
                      ELSE <<id \div shape[2], id % shape[2]>>

\* sparse.COO((geom_idxs, *unravel_index(xy_idxs)), data, sorted=True, fill_value=0)
COO(st, ngeoms, shape) ==
    [coords |-> [k \in DOMAIN st.geom_idxs |->
                    <<st.geom_idxs[k]>> \o Unravel(st.xy_idxs[k], shape)],
     data |-> st.data,
     sorted |-> TRUE,
     fill_value |-> <<0, 1>>,
     shape |-> <<ngeoms>> \o shape]

\* np_coverage(x, y, geometries=GeoDataFrame with ncols columns, coverage_weight)
np_coverage(xs, ys, geoms, ncols, mode, ord) ==
    LET dtype == get_dtype(mode)
        shape == <<Len(ys), Len(xs)>>
        rast == xy_to_raster_source(xs, ys)
        result == exact_extract(rast, geoms, mode, ord)
        lens == [i \in 1..Len(result) |-> Len(result[i].cell_id)]
        nnz == SumSeq(lens)
        st == FillLoop(EmptyArrays(nnz), 0, result, dtype)
    IN  IF ncols > 1
        THEN [status |-> "ValueError", engine |-> 0]
        ELSE IF EngineFails(rast)
        THEN [status |-> "EngineError", engine |-> 1]
        ELSE [status |-> "ok", engine |-> 1, result |-> result, nnz |-> nnz,
              off |-> st.off, writes |-> st.writes, raster |-> rast,
              coo |-> COO(st, Len(geoms), shape)]

(***************************************************************************)
(* Reading a sparse array                                                  *)
(***************************************************************************)
AddFrac(a, b) == Frac(a[1] * b[2] + b[1] * a[2], a[2] * b[2])

\* the value read at a coordinate triple: the stored entries there summed
\* (COO sums duplicates), the fill value where nothing is stored
RECURSIVE SumAt(_, _, _)
SumAt(coo, t, k) ==
    IF k > Len(coo.coords) THEN coo.fill_value
    ELSE IF coo.coords[k] = t THEN AddFrac(coo.data[k], SumAt(coo, t, k + 1))
    ELSE SumAt(coo, t, k + 1)

Triples(shape) == (0..(shape[1] - 1)) \X (0..(shape[2] - 1)) \X (0..(shape[3] - 1))

\* todense()
Dense(coo) == [t \in Triples(coo.shape) |-> SumAt(coo, t, 1)]

(***************************************************************************)
(* Geometry tables                                                         *)
(***************************************************************************)
\* an in-memory GeoDataFrame with ncols columns
GeoTable(geoms, ncols) ==
    [geoms |-> geoms, ncols |-> ncols, kind |-> "geopandas", parts |-> <<Len(geoms)>>]

Idle ==
    /\ obj = None
    /\ chunks = None
    /\ raster = None
    /\ out = None
    /\ engineCalls = 0
    /\ labels = None

(***************************************************************************)
(* Specification SpecRaster: xy_to_raster_source on every pair of axes     *)
(***************************************************************************)
InitRaster ==
    /\ pc = "raster_call"
    /\ x \in AllAxes
    /\ y \in AllAxes
    /\ geometries = None
    /\ coverage_weight = None
    /\ order = None
    /\ Idle

XyToRasterSource ==
    /\ pc = "raster_call"
    /\ raster' = xy_to_raster_source(x, y)
    /\ pc' = "raster_done"
    /\ UNCHANGED <<x, y, geometries, coverage_weight, order, obj, chunks, out,
                   engineCalls, labels>>

NextRaster == XyToRasterSource

SpecRaster == InitRaster /\ [][NextRaster]_vars

(***************************************************************************)
(* Specification SpecNp: np_coverage on in-memory axes and geometries      *)
(***************************************************************************)
InitNp ==
    /\ pc = "np_call"
    /\ x \in AllAxes
    /\ y \in AllAxes
    /\ geometries \in {GeoTable(g, c) : g \in GeomSeqs, c \in {1, 2}}
    /\ coverage_weight \in EngineModes
    /\ order \in EngineOrders
    /\ Idle

NpCoverage ==
    /\ pc = "np_call"
    /\ out' = np_coverage(x, y, geometries.geoms, geometries.ncols, coverage_weight, order)
    /\ engineCalls' = engineCalls + out'.engine
    /\ raster' = IF out'.status = "ok" THEN out'.raster ELSE raster
    /\ pc' = "np_done"
    /\ UNCHANGED <<x, y, geometries, coverage_weight, order, obj, chunks, labels>>

NextNp == NpCoverage

SpecNp == InitNp /\ [][NextNp]_vars

(***************************************************************************)
(* Chunk layouts and blocks                                                *)
(***************************************************************************)
\* the chunk layouts of an axis of length n: one chunk, or two
Layouts(n) == {<<n>>} \cup {<<k, n - k>> : k \in 1..(n - 1)}

\* start of chunk i (1-based) of a layout
Off(layout, i) == SumSeq(SubSeq(layout, 1, i - 1))

\* the chunk of a layout that holds position pos (0-based)
ChunkOf(layout, pos) ==
    CHOOSE i \in 1..Len(layout) : Off(layout, i) <= pos /\ pos < Off(layout, i) + layout[i]

\* the blocks of map_blocks: one per (geometry chunk, y chunk, x chunk)
Blocks(ch) == (1..Len(ch.g)) \X (1..Len(ch.y)) \X (1..Len(ch.x))

ChunkSlice(s, layout, i) == Slice(s, Off(layout, i), Off(layout, i) + layout[i])

(***************************************************************************)
(* coverage_np_dask_wrapper and dask_coverage                              *)
(***************************************************************************)
\* the columns of gpd.GeoDataFrame(geometry=geom_array.squeeze(...), crs=crs)
WrapperColumns == 1

\* one block: the squeezed block arrays go to np_coverage
coverage_np_dask_wrapper(geom_array, xb, yb, mode, ord) ==
    np_coverage(xb, yb, geom_array, WrapperColumns, mode, ord)

\* faulty variant: only the x chunks are validated
ChunkSizeErrorXOnly(ch) == \E i \in 1..Len(ch.x) : ch.x[i] = 1

\* any(c == 1 for c in x.chunks[0]) or any(c == 1 for c in y.chunks[0])
ChunkSizeError(ch) ==
    \/ \E i \in 1..Len(ch.x) : ch.x[i] = 1
    \/ \E i \in 1..Len(ch.y) : ch.y[i] = 1

\* the block of the output that block b of the inputs computes
BlockResult(b, xs, ys, geoms, ch, mode, ord) ==
    coverage_np_dask_wrapper(ChunkSlice(geoms, ch.g, b[1]),
                             ChunkSlice(xs, ch.x, b[3]),
                             ChunkSlice(ys, ch.y, b[2]),
                             mode, ord)

NoBlocks == [b \in {} |-> None]

\* the chunked array read as one dense array: each block at the offset of
\* its chunks
Assembled(results, ch) ==
    [t \in Triples(<<SumSeq(ch.g), SumSeq(ch.y), SumSeq(ch.x)>>) |->
        LET b == <<ChunkOf(ch.g, t[1]), ChunkOf(ch.y, t[2]), ChunkOf(ch.x, t[3])>>
            loc == <<t[1] - Off(ch.g, b[1]), t[2] - Off(ch.y, b[2]), t[3] - Off(ch.x, b[3])>>
        IN  SumAt(results[b].coo, loc, 1)]

(***************************************************************************)
(* Specification SpecDask: dask_coverage on chunked axes and geometries,   *)
(* its blocks computed in any order                                        *)
(***************************************************************************)
\* the shortest axis that splits into two chunks of MIN_CHUNK_SIZE
BlockAxisLen == 2 * MIN_CHUNK_SIZE

\* one weighting mode for each value dtype
BlockModes == {W_fraction, W_none}

\* a geometry array (one column) with chunk sizes parts
GeomArray(geoms, parts) ==
    [geoms |-> geoms, ncols |-> 1, kind |-> "dask_array", parts |-> parts]

InitDask ==
    /\ pc = "dask_call"
    /\ x \in Axes(BlockAxisLen)
    /\ y \in Axes(BlockAxisLen)
    /\ geometries \in UNION {{GeomArray(GeomRun(k, n), p) : k \in 1..2, p \in Layouts(n)} :
                                 n \in 1..MaxGeoms}
    /\ chunks \in [x : Layouts(Len(x)), y : Layouts(Len(y)), g : {geometries.parts}]
    /\ coverage_weight \in BlockModes
    /\ order \in EngineOrders
    /\ obj = None
    /\ raster = None
    /\ out = None
    /\ engineCalls = 0
    /\ labels = None

\* dask_coverage: validate the chunk sizes, then build the lazy block graph
DaskCoverage ==
    /\ pc = "dask_call"
    /\ IF ChunkSizeError(chunks)
       THEN pc' = "ValueError" /\ out' = out
       ELSE pc' = "graph" /\ out' = NoBlocks
    /\ UNCHANGED <<x, y, geometries, coverage_weight, order, obj, chunks, raster,
                   engineCalls, labels>>

\* faulty variant: the blocks write into one result object that they share
ExecBlockShared(b) ==
    /\ pc = "graph"
    /\ b \notin DOMAIN out
    /\ LET r == BlockResult(b, x, y, geometries.geoms, chunks, coverage_weight, order)
       IN  /\ out' = [c \in DOMAIN out \cup {b} |-> r]
           /\ engineCalls' = engineCalls + r.engine
    /\ UNCHANGED <<pc, x, y, geometries, coverage_weight, order, obj, chunks, raster,
                   labels>>

\* the scheduler runs one block that has not run yet; the raster source the
\* block builds is local to it
ExecBlock(b) ==
    /\ pc = "graph"
    /\ b \notin DOMAIN out
    /\ LET r == BlockResult(b, x, y, geometries.geoms, chunks, coverage_weight, order)
       IN  /\ out' = [c \in DOMAIN out \cup {b} |-> IF c = b THEN r ELSE out[c]]
           /\ engineCalls' = engineCalls + r.engine
    /\ UNCHANGED <<pc, x, y, geometries, coverage_weight, order, obj, chunks, raster,
                   labels>>

\* every block has run: the computation ends, failed if a block raised
Compute ==
    /\ pc = "graph"
    /\ DOMAIN out = Blocks(chunks)
    /\ pc' = IF \A b \in DOMAIN out : out[b].status = "ok" THEN "computed" ELSE "failed"
    /\ UNCHANGED <<x, y, geometries, coverage_weight, order, obj, chunks, raster,
                   out, engineCalls, labels>>

NextDask ==
    \/ DaskCoverage
    \/ \E b \in (IF pc = "graph" THEN Blocks(chunks) ELSE {}) : ExecBlock(b)
    \/ Compute

SpecDask == InitDask /\ [][NextDask]_vars

(***************************************************************************)
(* coverage: the public entry point                                        *)
(***************************************************************************)
\* no chunks: the coordinate array is a numpy array, or the gridded object
\* declares no chunk sizes for the dimension
NoChunks == <<>>

\* The gridded object, as far as coverage reads it: whether it has the
\* spatial_ref coordinate; per dimension the chunks of the coordinate array
\* when that is a dask Array (coord) and the chunk sizes the object declares
\* (chunksizes).
DimChunking(n) ==
    {[coord |-> NoChunks, declared |-> NoChunks]}
    \cup {[coord |-> NoChunks, declared |-> d] : d \in Layouts(n)}
    \cup {[coord |-> c, declared |-> c] : c \in Layouts(n)}

GriddedObjects(nx, ny) ==
    {[spatial_ref |-> sr,
      coord |-> [x |-> dx.coord, y |-> dy.coord],
      chunksizes |-> [x |-> dx.declared, y |-> dy.declared]] :
        sr \in BOOLEAN, dx \in DimChunking(nx), dy \in DimChunking(ny)}

\* a dask_geopandas GeoDataFrame with ncols columns, partitioned into parts
DaskGeoTable(geoms, ncols, parts) ==
    [geoms |-> geoms, ncols |-> ncols, kind |-> "dask_geopandas", parts |-> parts]

\* utils.is_in_memory: the gridded object and the geometry collection are
\* both fully materialised in memory
is_in_memory(o, tbl) ==
    /\ o.coord.x = NoChunks /\ o.coord.y = NoChunks
    /\ o.chunksizes.x = NoChunks /\ o.chunksizes.y = NoChunks
    /\ tbl.kind = "geopandas"

\* utils.geometries_as_dask_array: the geometry collection in its chunked
\* representation, an in-memory table as one chunk
geometries_as_dask_array(tbl) ==
    IF tbl.kind = "geopandas" THEN <<Len(tbl.geoms)>> ELSE tbl.parts

\* faulty variant: the declared chunk sizes are ignored
FromArraySingleChunk(n, declared) == <<n>>

\* from_array(data, chunks=obj.chunksizes.get(dim, -1)): the chunks of the
\* new dask array; -1 is one chunk spanning the axis
from_array(n, declared) == IF declared = NoChunks THEN <<n>> ELSE declared

\* dask_x / dask_y of the chunked path
DaskCoord(o, dim, n) ==
    IF o.coord[dim] = NoChunks THEN from_array(n, o.chunksizes[dim]) ELSE o.coord[dim]

Contains(s, sub) ==
    \E i \in 1..(Len(s) - Len(sub) + 1) : SubSeq(s, i, i + Len(sub) - 1) = sub

\* faulty variant: the suffix is cut off whether or not the string ends in it
RemoveSuffixBlind(s, suf) == SubSeq(s, 1, Len(s) - Len(suf))

\* str.removesuffix
RemoveSuffix(s, suf) ==
    IF Len(s) >= Len(suf) /\ SubSeq(s, Len(s) - Len(suf) + 1, Len(s)) = suf
    THEN SubSeq(s, 1, Len(s) - Len(suf))
    ELSE s

S_area == <<"a", "r", "e", "a">>

S_m2 == <<"_", "m", "2">>

S_km2 == <<"_", "k", "m", "2">>

\* name and attrs of the DataArray; keys are the attributes that are set
OutputLabels(mode) ==
    [name |-> IF Contains(mode, S_area) THEN "area" ELSE "coverage",
     keys |-> IF Contains(mode, S_m2) \/ mode = W_area_cartesian \/ Contains(mode, S_km2)
              THEN {"long_name", "units"} ELSE {},
     long_name |-> IF Contains(mode, S_m2) \/ mode = W_area_cartesian
                   THEN RemoveSuffix(mode, S_m2)
                   ELSE IF Contains(mode, S_km2) THEN RemoveSuffix(mode, S_km2)
                   ELSE <<>>,
     units |-> IF Contains(mode, S_m2) \/ mode = W_area_cartesian THEN "m2"
               ELSE IF Contains(mode, S_km2) THEN "km2"
               ELSE ""]

(***************************************************************************)
(* Specification Spec: coverage on a north-up, evenly spaced raster, with  *)
(* every chunking of the gridded object and of the geometry collection     *)
(***************************************************************************)
NorthUpX == AscAxis(BlockAxisLen, 0)

NorthUpY == Reverse(AscAxis(BlockAxisLen, 0))

GeomTables ==
    {GeoTable(GeomRun(1, n), c) : n \in 1..MaxGeoms, c \in {1, 2}}
    \cup UNION {{DaskGeoTable(GeomRun(1, n), c, p) : c \in {1, 2}, p \in Layouts(n)} :
                    n \in 1..MaxGeoms}

Init ==
    /\ pc = "call"
    /\ x = NorthUpX
    /\ y = NorthUpY
    /\ obj \in GriddedObjects(Len(x), Len(y))
    /\ geometries \in GeomTables
    /\ coverage_weight \in CoverageWeights
    /\ order \in EngineOrders
    /\ chunks = None
    /\ raster = None
    /\ out = None
    /\ engineCalls = 0
    /\ labels = None

\* the in-memory branch: np_coverage, then geometries.to_numpy().squeeze(axis=1)
CoverageInMemory ==
    LET r == np_coverage(x, y, geometries.geoms, geometries.ncols, coverage_weight, order)
    IN  /\ engineCalls' = engineCalls + r.engine
        /\ out' = r
        /\ chunks' = chunks
        /\ IF r.status = "ValueError" THEN pc' = "err_columns" /\ labels' = labels
           ELSE IF r.status # "ok" THEN pc' = "failed" /\ labels' = labels
           ELSE pc' = "returned" /\ labels' = OutputLabels(coverage_weight)

\* the chunked branch: normalise, dask_coverage, then the geometry coordinate
CoverageChunked ==
    LET ch == [x |-> DaskCoord(obj, "x", Len(x)),
               y |-> DaskCoord(obj, "y", Len(y)),
               g |-> geometries_as_dask_array(geometries)]
    IN  /\ chunks' = ch
        /\ engineCalls' = engineCalls
        /\ IF ChunkSizeError(ch)
           THEN pc' = "err_chunksize" /\ out' = out /\ labels' = labels
           ELSE IF geometries.kind = "geopandas" /\ geometries.ncols # 1
           THEN pc' = "err_squeeze" /\ out' = out /\ labels' = labels
           ELSE pc' = "graph" /\ out' = NoBlocks /\ labels' = OutputLabels(coverage_weight)

\* coverage(obj, geometries, coverage_weight=...), up to its return; the
\* blocks of the chunked path run later, when the result is computed
Coverage ==
    /\ pc = "call"
    /\ IF ~obj.spatial_ref
       THEN pc' = "err_spatial_ref" /\ UNCHANGED <<chunks, out, engineCalls, labels>>
       ELSE IF is_in_memory(obj, geometries) THEN CoverageInMemory
       ELSE CoverageChunked
    /\ UNCHANGED <<x, y, geometries, coverage_weight, order, obj, raster>>

Next ==
    \/ Coverage
    \/ \E b \in (IF pc = "graph" THEN Blocks(chunks) ELSE {}) : ExecBlock(b)
    \/ Compute

Spec == Init /\ [][Next]_vars

(***************************************************************************)
(* Claims about xy_to_raster_source (SpecRaster)                           *)
(***************************************************************************)
\* the gap between the smallest cell center and its neighbour
LowGap(a) == IF IsAscending(a) THEN a[2] - a[1] ELSE a[Len(a) - 1] - a[Len(a)]

\* the gap between the largest cell center and its neighbour
HighGap(a) == IF IsAscending(a) THEN a[Len(a)] - a[Len(a) - 1] ELSE a[1] - a[2]

Box(r) == <<r.xmin, r.xmax, r.ymin, r.ymax>>

\* C7: for strictly monotonic axes of length >= 2, xmin and ymin lie half the
\* boundary cell's width below the smallest center, xmax and ymax half the
\* boundary cell's width above the largest, and reversing either axis
\* leaves (xmin, xmax, ymin, ymax) unchanged.
C7_BoundingBox ==
    pc = "raster_done" =>
        /\ raster.xmin = SeqMin(x) - LowGap(x) \div 2
        /\ raster.xmax = SeqMax(x) + HighGap(x) \div 2
        /\ raster.ymin = SeqMin(y) - LowGap(y) \div 2
        /\ raster.ymax = SeqMax(y) + HighGap(y) \div 2
        /\ Box(xy_to_raster_source(Reverse(x), y)) = Box(raster)
        /\ Box(xy_to_raster_source(x, Reverse(y))) = Box(raster)

\* the part of C7 that the code keeps: the y extent of every axis, and the
\* x extent of an ascending x axis
C7_AscendingX ==
    pc = "raster_done" =>
        /\ raster.ymin = SeqMin(y) - LowGap(y) \div 2
        /\ raster.ymax = SeqMax(y) + HighGap(y) \div 2
        /\ Box(xy_to_raster_source(x, Reverse(y))) = Box(raster)
        /\ IsAscending(x) =>
              /\ raster.xmin = SeqMin(x) - LowGap(x) \div 2
              /\ raster.xmax = SeqMax(x) + HighGap(x) \div 2

(***************************************************************************)
(* Claims about np_coverage (SpecNp)                                       *)
(***************************************************************************)
NpOk == pc = "np_done" /\ out.status = "ok"

CellId(t, shape) == t[2] * shape[3] + t[3]

Returned(result, t, shape) ==
    \E k \in 1..Len(result[t[1] + 1].cell_id) :
        result[t[1] + 1].cell_id[k] = CellId(t, shape)

Stored(coo, t) == \E k \in 1..Len(coo.coords) : coo.coords[k] = t

\* C4: a triple the engine did not return for its geometry reads as the fill
\* value 0 and has no stored entry; no stored value is zero, and every
\* stored entry sits where the geometry's footprint intersects the cell.
C4_Sparsity ==
    NpOk =>
        /\ \A t \in Triples(out.coo.shape) :
              ~Returned(out.result, t, out.coo.shape) =>
                  /\ Dense(out.coo)[t] = <<0, 1>>
                  /\ ~Stored(out.coo, t)
        /\ \A k \in 1..Len(out.coo.coords) :
              /\ out.coo.data[k] # <<0, 1>>
              /\ out.coo.data[k] # UninitValue
              /\ out.coo.coords[k] \in Triples(out.coo.shape)
              /\ CellOverlap(raster, CellId(out.coo.coords[k], out.coo.shape),
                             geometries.geoms[out.coo.coords[k][1] + 1]) > 0

\* a result with stored entries and with triples read as fill
C4_Witness ==
    /\ NpOk
    /\ Len(out.coo.coords) > 0
    /\ \E t \in Triples(out.coo.shape) : ~Stored(out.coo, t)
    /\ coverage_weight = W_none

\* C5: the number of stored entries equals the sum of the engine's
\* per-geometry cell counts; so does the write offset after the fill loop;
\* every slot is written exactly once; a geometry without cells stores no
\* entry and raises no error.
C5_Count ==
    pc = "np_done" /\ geometries.ncols = 1 /\ ~EngineFails(xy_to_raster_source(x, y)) =>
        /\ out.status = "ok"
        /\ Len(out.coo.coords) = SumSeq([i \in 1..Len(out.result) |-> Len(out.result[i].cell_id)])
        /\ Len(out.coo.data) = Len(out.coo.coords)
        /\ out.off = Len(out.coo.coords)
        /\ \A k \in 1..Len(out.writes) : out.writes[k] = 1
        /\ \A i \in 1..Len(out.result) :
              Len(out.result[i].cell_id) = 0 =>
                  ~\E k \in 1..Len(out.coo.coords) : out.coo.coords[k][1] = i - 1

\* a result where a geometry without cells precedes one with cells
C5_Witness ==
    /\ NpOk
    /\ Len(out.result) >= 2
    /\ Len(out.result[1].cell_id) = 0
    /\ Len(out.result[2].cell_id) > 1

LexLeq(a, b) ==
    \/ a[1] < b[1]
    \/ a[1] = b[1] /\ a[2] < b[2]
    \/ a[1] = b[1] /\ a[2] = b[2] /\ a[3] <= b[3]

\* C9: the coordinate triples handed to the sparse constructor with
\* sorted=True are in non-decreasing lexicographic (geometry, y, x) order.
C9_Sorted ==
    NpOk =>
        \A k \in 1..(Len(out.coo.coords) - 1) :
            LexLeq(out.coo.coords[k], out.coo.coords[k + 1])

\* what the fill loop itself ensures: non-decreasing geometry indices, and
\* within a geometry the engine's own order of cell ids
C9_GroupedByGeometry ==
    NpOk =>
        /\ \A k \in 1..(Len(out.coo.coords) - 1) :
              out.coo.coords[k][1] <= out.coo.coords[k + 1][1]
        /\ order = "row_major" =>
              \A k \in 1..(Len(out.coo.coords) - 1) :
                  LexLeq(out.coo.coords[k], out.coo.coords[k + 1])

(***************************************************************************)
(* Claims about dask_coverage (SpecDask)                                   *)
(***************************************************************************)
Whole == np_coverage(x, y, geometries.geoms, WrapperColumns, coverage_weight, order)

Uniform(a) == \A k \in 1..(Len(a) - 1) : a[k + 1] - a[k] = a[2] - a[1]

\* C1: for every chunk layout whose x and y chunks all have size >= 2, the
\* array assembled from the blocks of dask_coverage equals, cell for cell,
\* the dense result of np_coverage on the whole axes and geometries (and so
\* the arrays of any two such layouts are equal).
C1_ChunkInvariance ==
    pc \in {"computed", "failed"} =>
        /\ pc = "computed"
        /\ Assembled(out, chunks) = Dense(Whole.coo)

\* the part of C1 that the code keeps: evenly spaced axes, x ascending and
\* y descending
C1_RegularNorthUp ==
    /\ pc \in {"computed", "failed"}
    /\ Uniform(x) /\ IsAscending(x)
    /\ Uniform(y) /\ ~IsAscending(y)
    => /\ pc = "computed"
       /\ Assembled(out, chunks) = Dense(Whole.coo)

HasUnitChunk(layout) == \E i \in 1..Len(layout) : layout[i] = 1

\* C2: when a chunk of the x axis or of the y axis has size 1, dask_coverage
\* raises the usage error, no block is dispatched and the overlay engine is
\* never invoked; a geometry chunk of size 1 alone raises nothing.
C2_UnitChunkRejected ==
    pc # "dask_call" =>
        /\ HasUnitChunk(chunks.x) \/ HasUnitChunk(chunks.y) =>
              pc = "ValueError" /\ out = None /\ engineCalls = 0
        /\ ~HasUnitChunk(chunks.x) /\ ~HasUnitChunk(chunks.y) => pc # "ValueError"

\* rejected for a unit chunk of the y axis alone
C2_Witness ==
    /\ pc = "ValueError"
    /\ HasUnitChunk(chunks.y)
    /\ ~HasUnitChunk(chunks.x)

(***************************************************************************)
(* Claims about coverage (Spec)                                            *)
(***************************************************************************)
CoverageReturned == pc \in {"returned", "graph", "computed", "failed"}

\* C3: a geometry collection with more than one column makes coverage raise
\* a usage error before the overlay engine is invoked for any block, on the
\* in-memory path and on the chunked path alike.
C3_MultiColumnRejected ==
    pc # "call" /\ obj.spatial_ref /\ geometries.ncols > 1 =>
        /\ ~CoverageReturned
        /\ engineCalls = 0

\* the part of C3 that the code keeps: an in-memory GeoDataFrame with more
\* than one column is rejected before any engine call, on either path
C3_InMemoryTableRejected ==
    pc # "call" /\ obj.spatial_ref /\ geometries.ncols > 1 /\ geometries.kind = "geopandas" =>
        /\ ~CoverageReturned
        /\ engineCalls = 0

S_area_spherical ==
    <<"a", "r", "e", "a", "_", "s", "p", "h", "e", "r", "i", "c", "a", "l">>

\* C6: the output is named "area" for the three area modes and "coverage"
\* for "fraction" and "none"; area_spherical_m2 and area_cartesian get units
\* "m2", area_spherical_km2 gets units "km2", each with long_name the mode
\* without its unit suffix; "fraction" and "none" get neither attribute.
C6_NamingUnits ==
    CoverageReturned =>
        /\ coverage_weight = W_area_spherical_m2 =>
              /\ labels.name = "area" /\ labels.keys = {"long_name", "units"}
              /\ labels.units = "m2" /\ labels.long_name = S_area_spherical
        /\ coverage_weight = W_area_cartesian =>
              /\ labels.name = "area" /\ labels.keys = {"long_name", "units"}
              /\ labels.units = "m2" /\ labels.long_name = W_area_cartesian
        /\ coverage_weight = W_area_spherical_km2 =>
              /\ labels.name = "area" /\ labels.keys = {"long_name", "units"}
              /\ labels.units = "km2" /\ labels.long_name = S_area_spherical
        /\ coverage_weight \in {W_fraction, W_none} =>
              labels.name = "coverage" /\ labels.keys = {}

\* the scenario of the claim: area_spherical_km2 has been labelled
C6_Witness ==
    /\ CoverageReturned
    /\ coverage_weight = W_area_spherical_km2
    /\ labels.units = "km2"

ChunkedPath == pc \in {"graph", "computed", "failed", "err_chunksize", "err_squeeze"}

\* C10 as stated: on the chunked path a coordinate array that is not chunked
\* becomes one chunk spanning the axis, whatever chunk sizes the gridded
\* object declares; a chunked one keeps its chunks.
C10_SingleChunk ==
    ChunkedPath =>
        /\ chunks.x = IF obj.coord.x = NoChunks THEN <<Len(x)>> ELSE obj.coord.x
        /\ chunks.y = IF obj.coord.y = NoChunks THEN <<Len(y)>> ELSE obj.coord.y

\* C10, amended: a coordinate array that is not chunked takes the chunk
\* sizes the gridded object declares for its dimension, and becomes one
\* chunk spanning the axis only when none are declared; a chunked one keeps
\* its chunks.
C10_DeclaredChunks ==
    ChunkedPath =>
        /\ chunks.x = IF obj.coord.x # NoChunks THEN obj.coord.x
                      ELSE IF obj.chunksizes.x # NoChunks THEN obj.chunksizes.x
                      ELSE <<Len(x)>>
        /\ chunks.y = IF obj.coord.y # NoChunks THEN obj.coord.y
                      ELSE IF obj.chunksizes.y # NoChunks THEN obj.chunksizes.y
                      ELSE <<Len(y)>>

\* an x coordinate that is not chunked, on an object that declares two x
\* chunks, next to a y coordinate with nothing declared
C10_Witness ==
    /\ pc = "graph"
    /\ obj.coord.x = NoChunks /\ obj.chunksizes.x = <<MIN_CHUNK_SIZE, MIN_CHUNK_SIZE>>
    /\ obj.coord.y = NoChunks /\ obj.chunksizes.y = NoChunks
    /\ chunks.x = obj.chunksizes.x
    /\ chunks.y = <<Len(y)>>

====
